---- MODULE Spec2Model ----
(***************************************************************************)
(* A model of cert_chain.py: a hash-linked, append-only certificate        *)
(* ledger kept in memory as a list of Block objects and rewritten to a     *)
(* JSON file after every append.                                           *)
(*                                                                         *)
(* Python values are tagged records [t |-> <type>, v |-> <value>], JSON    *)
(* documents are tagged records with JSON's own type names, Python str is  *)
(* a TLA+ string, and sha256(s).hexdigest() is the symbolic, collision-    *)
(* free string "sha256(" \o s \o ")".                                      *)
(***************************************************************************)
EXTENDS Integers, Sequences, FiniteSets, TLC

VARIABLES
    chain,  \* Blockchain.chain of the running process: a sequence of Blocks
    file,   \* the content of CHAIN_FILE on disk
    now,    \* the wall clock, in ticks
    pc,     \* "down": no process; "up": run() is at the menu prompt
    last,   \* what the last operation did and returned
    peer    \* a second process on the same CHAIN_FILE: its pc and its chain

vars == <<chain, file, now, pc, last, peer>>

\* ------------------------------------------------------------------ bounds

\* No flow appends once the chain has this many blocks.
MaxChain == 4
\* The clock stops advancing at this reading.
MaxTime == 1

\* ----------------------------------------------------------- Python values

PInt(n) == [t |-> "int", v |-> n]
PFloat(n) == [t |-> "float", v |-> n]
PStr(s) == [t |-> "str", v |-> s]
PNone == [t |-> "None", v |-> 0]
\* A dict is its items in insertion order; a list is its elements.
PDict(items) == [t |-> "dict", v |-> items]
PList(elems) == [t |-> "list", v |-> elems]

\* dict.get(key, default)
RECURSIVE ItemsGet(_, _, _)
ItemsGet(items, key, default) ==
    IF items = <<>> THEN default
    ELSE IF Head(items)[1] = key THEN Head(items)[2]
    ELSE ItemsGet(Tail(items), key, default)

DictGet(d, key, default) == ItemsGet(d.v, key, default)

Keys(items) == {items[i][1] : i \in DOMAIN items}

\* d[key] = value on a dict's items: overwrite in place, or add at the end.
ItemsSet(items, key, value) ==
    IF key \in Keys(items)
    THEN [i \in DOMAIN items |->
            IF items[i][1] = key THEN <<key, value>> ELSE items[i]]
    ELSE Append(items, <<key, value>>)

\* ------------------------------------------------------------------- Block

Block(index, timestamp, prev_hash, data, current_hash) ==
    [index |-> index, timestamp |-> timestamp, prev_hash |-> prev_hash,
     data |-> data, current_hash |-> current_hash]

BlockFields == <<"index", "timestamp", "prev_hash", "data", "current_hash">>

\* dataclasses.asdict(b): the fields in declaration order.
asdict(b) ==
    PDict(<< <<"index", b.index>>, <<"timestamp", b.timestamp>>,
             <<"prev_hash", b.prev_hash>>, <<"data", b.data>>,
             <<"current_hash", b.current_hash>> >>)

\* ------------------------------------------------------------------ hashes

sha256(s) == "sha256(" \o s \o ")"

\* "0"*64
ZeroHash == "0000000000000000000000000000000000000000000000000000000000000000"

\* repr() of a value as the f-string of compute_hash and _create_genesis
\* see it: a dict's items in insertion order, a str in quotes.
RECURSIVE repr(_)
RECURSIVE reprItems(_)
RECURSIVE reprElems(_)
repr(x) ==
    CASE x.t = "str" -> "'" \o x.v \o "'"
      [] x.t = "int" -> ToString(x.v)
      [] x.t = "float" -> ToString(x.v) \o ".0"
      [] x.t = "None" -> "None"
      [] x.t = "dict" -> "{" \o reprItems(x.v) \o "}"
      [] x.t = "list" -> "[" \o reprElems(x.v) \o "]"

reprItems(items) ==
    IF items = <<>> THEN ""
    ELSE "'" \o Head(items)[1] \o "': " \o repr(Head(items)[2])
         \o (IF Len(items) > 1 THEN ", " ELSE "") \o reprItems(Tail(items))

reprElems(elems) ==
    IF elems = <<>> THEN ""
    ELSE repr(Head(elems))
         \o (IF Len(elems) > 1 THEN ", " ELSE "") \o reprElems(Tail(elems))

\* str(time()) inside the f-string
StrTime(t) == ToString(t) \o ".0"

\* ------------------------------------------------------- the JSON document

JInt(n) == [t |-> "int", v |-> n]
JReal(n) == [t |-> "real", v |-> n]
JString(s) == [t |-> "string", v |-> s]
JNull == [t |-> "null", v |-> 0]
\* An object is its members in the order of the text (a name may repeat).
JObject(members) == [t |-> "object", v |-> members]
JArray(elems) == [t |-> "array", v |-> elems]

\* The file: absent, present with text that is no JSON, or a JSON document.
NoFile == [exists |-> FALSE, parses |-> FALSE, doc |-> JNull]
Garbage == [exists |-> TRUE, parses |-> FALSE, doc |-> JNull]
JsonFile(doc) == [exists |-> TRUE, parses |-> TRUE, doc |-> doc]

\* json.dump: the encoder's mapping of Python types to JSON.
RECURSIVE json_dump(_)
json_dump(x) ==
    CASE x.t = "int" -> JInt(x.v)
      [] x.t = "float" -> JReal(x.v)
      [] x.t = "str" -> JString(x.v)
      [] x.t = "None" -> JNull
      [] x.t = "dict" ->
            JObject([i \in DOMAIN x.v |-> <<x.v[i][1], json_dump(x.v[i][2])>>])
      [] x.t = "list" -> JArray([i \in DOMAIN x.v |-> json_dump(x.v[i])])

\* The dict json.load builds from an object's members: a repeated name keeps
\* its first place and takes its last value.
RECURSIVE DictOfMembers(_, _)
DictOfMembers(members, acc) ==
    IF members = <<>> THEN acc
    ELSE DictOfMembers(Tail(members),
                       ItemsSet(acc, Head(members)[1], Head(members)[2]))

\* json.load of a document that parses.
RECURSIVE json_load(_)
json_load(j) ==
    CASE j.t = "int" -> PInt(j.v)
      [] j.t = "real" -> PFloat(j.v)
      [] j.t = "string" -> PStr(j.v)
      [] j.t = "null" -> PNone
      [] j.t = "object" ->
            PDict(DictOfMembers(
                [i \in DOMAIN j.v |-> <<j.v[i][1], json_load(j.v[i][2])>>], <<>>))
      [] j.t = "array" -> PList([i \in DOMAIN j.v |-> json_load(j.v[i])])

\* ------------------------------------------------------------- persistence

serialize(c) == PList([i \in DOMAIN c |-> asdict(c[i])])

\* _save: open(CHAIN_FILE, "w") and json.dump of the whole chain.
_save(c) == JsonFile(json_dump(serialize(c)))

\* What `for b in raw` yields: a list's elements, a dict's keys, a str's
\* characters (one str stands for them: Block(**b) fails on the first).
Iterable(raw) == raw.t \in {"list", "dict", "str"}

Iterate(raw) ==
    CASE raw.t = "list" -> raw.v
      [] raw.t = "dict" -> [i \in DOMAIN raw.v |-> PStr(raw.v[i][1])]
      [] raw.t = "str" -> IF raw.v = "" THEN <<>> ELSE <<PStr(raw.v)>>

\* Block(**b) raises TypeError unless b is a mapping whose keys are exactly
\* the five fields; it checks no value's type.
BlockAccepts(b) ==
    /\ b.t = "dict"
    /\ Keys(b.v) = {BlockFields[i] : i \in DOMAIN BlockFields}

BlockFromDict(b) ==
    Block(DictGet(b, "index", PNone), DictGet(b, "timestamp", PNone),
          DictGet(b, "prev_hash", PNone), DictGet(b, "data", PNone),
          DictGet(b, "current_hash", PNone))

\* _load with a defect: each block's current_hash is computed again from the
\* loaded fields instead of being taken from the file.
_load_recomputes(f) ==
    IF ~f.parses THEN [raises |-> TRUE, chain |-> <<>>]
    ELSE LET raw == json_load(f.doc) IN
         IF ~Iterable(raw) THEN [raises |-> TRUE, chain |-> <<>>]
         ELSE LET elems == Iterate(raw) IN
              IF \E i \in DOMAIN elems : ~BlockAccepts(elems[i])
              THEN [raises |-> TRUE, chain |-> <<>>]
              ELSE [raises |-> FALSE,
                    chain |-> [i \in DOMAIN elems |->
                        LET b == BlockFromDict(elems[i]) IN
                        [b EXCEPT !.current_hash =
                            PStr(sha256(repr(b.data) \o "|" \o repr(b.prev_hash)
                                        \o "|" \o repr(b.index)
                                        \o "|" \o repr(b.timestamp)))]]]

\* _load with a defect it does not have: it raises when a record's prev_hash is
\* not its predecessor's current_hash or its index is not its position.
_load_checks_links(f) ==
    IF ~f.parses THEN [raises |-> TRUE, chain |-> <<>>]
    ELSE LET raw == json_load(f.doc) IN
         IF ~Iterable(raw) THEN [raises |-> TRUE, chain |-> <<>>]
         ELSE LET elems == Iterate(raw) IN
              IF \E i \in DOMAIN elems : ~BlockAccepts(elems[i])
              THEN [raises |-> TRUE, chain |-> <<>>]
              ELSE LET c == [i \in DOMAIN elems |-> BlockFromDict(elems[i])] IN
                   IF \/ \E i \in DOMAIN c : c[i].index # PInt(i - 1)
                      \/ \E i \in 2..Len(c) :
                            c[i].prev_hash # c[i - 1].current_hash
                   THEN [raises |-> TRUE, chain |-> <<>>]
                   ELSE [raises |-> FALSE, chain |-> c]


\* _load: [raises |-> an exception left _load, chain |-> self.chain after it].
_load(f) ==
    IF ~f.parses THEN [raises |-> TRUE, chain |-> <<>>]
    ELSE LET raw == json_load(f.doc) IN
         IF ~Iterable(raw) THEN [raises |-> TRUE, chain |-> <<>>]
         ELSE LET elems == Iterate(raw) IN
              IF \E i \in DOMAIN elems : ~BlockAccepts(elems[i])
              THEN [raises |-> TRUE, chain |-> <<>>]
              ELSE [raises |-> FALSE,
                    chain |-> [i \in DOMAIN elems |-> BlockFromDict(elems[i])]]

\* ----------------------------------------------------------------- Blockchain

genesis_data ==
    PDict(<< <<"type", PStr("GENESIS")>>,
             <<"note", PStr("Decentralized Certificate Registry")>> >>)

\* The readings time() can give when the clock was last seen at t.
Reads(t) == {t, IF t < MaxTime THEN t + 1 ELSE t}

\* _create_genesis, time() reading t: the chain and the file it leaves.
_create_genesis(t) ==
    LET h == sha256(repr(genesis_data))
        c == <<Block(PInt(0), PFloat(t), PStr(ZeroHash), genesis_data, PStr(h))>>
    IN  [chain |-> c, file |-> _save(c)]

\* Blockchain() with a defect: no try/except around _load, so that a load
\* failure leaves the constructor.
Blockchain_no_except(f, t0, t) ==
    IF f.exists
    THEN LET l == _load(f) IN
         IF l.raises
         THEN [raises |-> TRUE, chain |-> <<>>, file |-> f, now |-> t0,
               how |-> "raised"]
         ELSE [raises |-> FALSE, chain |-> l.chain, file |-> f, now |-> t0,
               how |-> "loaded"]
    ELSE LET g == _create_genesis(t) IN
         [raises |-> FALSE, chain |-> g.chain, file |-> g.file, now |-> t,
          how |-> "genesis"]

\* Blockchain() with the clock at t0, time() reading t if it is called:
\* [raises, chain, file, now, how]. how is "loaded", "recovered" (the load
\* raised and was caught) or "genesis" (no file); raises says that an
\* exception left the constructor, which the try/except rules out as long as
\* _save can write the file.
Blockchain(f, t0, t) ==
    IF f.exists
    THEN LET l == _load(f) IN
         IF l.raises
         THEN LET g == _create_genesis(t) IN
              [raises |-> FALSE, chain |-> g.chain, file |-> g.file, now |-> t,
               how |-> "recovered"]
         ELSE [raises |-> FALSE, chain |-> l.chain, file |-> f, now |-> t0,
               how |-> "loaded"]
    ELSE LET g == _create_genesis(t) IN
         [raises |-> FALSE, chain |-> g.chain, file |-> g.file, now |-> t,
          how |-> "genesis"]

\* What an f-string puts for a value: a str as it is, anything else its repr.
Fmt(x) == IF x.t = "str" THEN x.v ELSE repr(x)

\* compute_hash with a defect: the payload string leaves out time().
compute_hash_no_time(c, data, prev_hash, t) ==
    sha256(repr(data) \o "|" \o Fmt(prev_hash) \o "|" \o ToString(Len(c)))

\* compute_hash on chain c, time() reading t.
compute_hash(c, data, prev_hash, t) ==
    sha256(repr(data) \o "|" \o Fmt(prev_hash) \o "|" \o ToString(Len(c))
           \o "|" \o StrTime(t))

NoBlock == Block(PNone, PNone, PNone, PNone, PNone)

\* add_block with a defect: _save runs before the append, so that the file
\* lacks the new block.
add_block_saves_first(c, f, data, t1, t2) ==
    IF c = <<>>
    THEN [raises |-> TRUE, chain |-> c, file |-> f, block |-> NoBlock]
    ELSE LET prev_hash == c[Len(c)].current_hash
             current_hash == compute_hash(c, data, prev_hash, t1)
             block == Block(PInt(Len(c)), PFloat(t2), prev_hash, data,
                            PStr(current_hash))
             c2 == Append(c, block)
         IN  [raises |-> FALSE, chain |-> c2, file |-> _save(c), block |-> block]

\* add_block with a defect: prev_hash is taken from the first block
\* (self.chain[0]) instead of last_block.
add_block_links_first(c, f, data, t1, t2) ==
    IF c = <<>>
    THEN [raises |-> TRUE, chain |-> c, file |-> f, block |-> NoBlock]
    ELSE LET prev_hash == c[1].current_hash
             current_hash == compute_hash(c, data, prev_hash, t1)
             block == Block(PInt(Len(c)), PFloat(t2), prev_hash, data,
                            PStr(current_hash))
             c2 == Append(c, block)
         IN  [raises |-> FALSE, chain |-> c2, file |-> _save(c2), block |-> block]

\* add_block with a defect: the index is len(self.chain) taken after the
\* append.
add_block_index_after_append(c, f, data, t1, t2) ==
    IF c = <<>>
    THEN [raises |-> TRUE, chain |-> c, file |-> f, block |-> NoBlock]
    ELSE LET prev_hash == c[Len(c)].current_hash
             current_hash == compute_hash(c, data, prev_hash, t1)
             block == Block(PInt(Len(c) + 1), PFloat(t2), prev_hash, data,
                            PStr(current_hash))
             c2 == Append(c, block)
         IN  [raises |-> FALSE, chain |-> c2, file |-> _save(c2), block |-> block]

\* add_block with a defect: the new block overwrites the last one
\* (self.chain[-1] = block) instead of being appended.
add_block_overwrites_last(c, f, data, t1, t2) ==
    IF c = <<>>
    THEN [raises |-> TRUE, chain |-> c, file |-> f, block |-> NoBlock]
    ELSE LET prev_hash == c[Len(c)].current_hash
             current_hash == compute_hash(c, data, prev_hash, t1)
             block == Block(PInt(Len(c)), PFloat(t2), prev_hash, data,
                            PStr(current_hash))
             c2 == [c EXCEPT ![Len(c)] = block]
         IN  [raises |-> FALSE, chain |-> c2, file |-> _save(c2), block |-> block]

\* add_block on chain c; time() reads t1 in compute_hash and t2 for the
\* timestamp. last_block raises IndexError on an empty chain.
add_block(c, f, data, t1, t2) ==
    IF c = <<>>
    THEN [raises |-> TRUE, chain |-> c, file |-> f, block |-> NoBlock]
    ELSE LET prev_hash == c[Len(c)].current_hash
             current_hash == compute_hash(c, data, prev_hash, t1)
             block == Block(PInt(Len(c)), PFloat(t2), prev_hash, data,
                            PStr(current_hash))
             c2 == Append(c, block)
         IN  [raises |-> FALSE, chain |-> c2, file |-> _save(c2), block |-> block]

\* any(b.data.get("cert_hash") == cert_hash for b in chain), from block i on:
\* it stops at the first match; .get raises on data that is no dict.
RECURSIVE AnyFrom(_, _, _)
AnyFrom(c, cert_hash, i) ==
    IF i > Len(c) THEN [raises |-> FALSE, value |-> FALSE]
    ELSE IF c[i].data.t # "dict" THEN [raises |-> TRUE, value |-> FALSE]
    ELSE IF DictGet(c[i].data, "cert_hash", PNone) = PStr(cert_hash)
         THEN [raises |-> FALSE, value |-> TRUE]
    ELSE AnyFrom(c, cert_hash, i + 1)

\* has_cert_hash with a defect: it looks at the last block only.
has_cert_hash_last_only(c, cert_hash) ==
    IF c = <<>> THEN [raises |-> FALSE, value |-> FALSE]
    ELSE AnyFrom(c, cert_hash, Len(c))

has_cert_hash(c, cert_hash) == AnyFrom(c, cert_hash, 1)

Matches(b, cert_hash) == DictGet(b.data, "cert_hash", PNone) = PStr(cert_hash)

RECURSIVE Filter(_, _)
Filter(c, cert_hash) ==
    IF c = <<>> THEN <<>>
    ELSE IF Matches(Head(c), cert_hash)
         THEN <<asdict(Head(c))>> \o Filter(Tail(c), cert_hash)
         ELSE Filter(Tail(c), cert_hash)

\* history with a defect: the filter keeps every block that carries some
\* cert_hash (if b.data.get("cert_hash")), whatever was asked for.
RECURSIVE FilterAny(_)
FilterAny(c) ==
    IF c = <<>> THEN <<>>
    ELSE IF DictGet(Head(c).data, "cert_hash", PNone) # PNone
         THEN <<asdict(Head(c))>> \o FilterAny(Tail(c))
         ELSE FilterAny(Tail(c))

history_any_cert(c, cert_hash) ==
    IF \E i \in DOMAIN c : c[i].data.t # "dict"
    THEN [raises |-> TRUE, value |-> <<>>]
    ELSE [raises |-> FALSE, value |-> FilterAny(c)]

\* history with a defect: the blocks come newest first (reversed(self.chain)).
RECURSIVE Reverse(_)
Reverse(q) == IF q = <<>> THEN <<>> ELSE Append(Reverse(Tail(q)), Head(q))

history_newest_first(c, cert_hash) ==
    IF \E i \in DOMAIN c : c[i].data.t # "dict"
    THEN [raises |-> TRUE, value |-> <<>>]
    ELSE [raises |-> FALSE, value |-> Reverse(Filter(c, cert_hash))]

\* history: the comprehension visits every block.
history(c, cert_hash) ==
    IF \E i \in DOMAIN c : c[i].data.t # "dict"
    THEN [raises |-> TRUE, value |-> <<>>]
    ELSE [raises |-> FALSE, value |-> Filter(c, cert_hash)]

\* ------------------------------------------------------------------- utilities

\* The certificate files on disk: the paths that are regular files, and the
\* bytes of each.
DiskFiles == {"cert.pdf"}
DiskBytes(path) == "%PDF " \o path

\* file_sha256: FileNotFoundError unless the path is a regular file.
file_sha256(path) ==
    IF path \notin DiskFiles THEN [raises |-> TRUE, value |-> ""]
    ELSE [raises |-> FALSE, value |-> sha256(DiskBytes(path))]

\* x[:12] inside the f-strings of pretty_block
Cut12(x) == "[:12](" \o Fmt(x) \o ")"

\* pretty_block on the dict of a block. ctime raises on a timestamp that is
\* no number (None means the current time), .get on data that is no dict,
\* and [:12] on a cert_hash that cannot be sliced.
pretty_block(b) ==
    LET ts == DictGet(b, "timestamp", PNone)
        d == DictGet(b, "data", PNone)
        idx == Fmt(DictGet(b, "index", PNone))
    IN
    IF ts.t \notin {"int", "float", "None"} \/ d.t # "dict"
    THEN [raises |-> TRUE, line |-> ""]
    ELSE LET t == "ctime(" \o Fmt(ts) \o ")"
             typ == DictGet(d, "type", PNone)
             ch == DictGet(d, "cert_hash", PNone)
         IN
         IF typ = PStr("MINT")
         THEN IF ch.t \notin {"str", "list"} THEN [raises |-> TRUE, line |-> ""]
              ELSE [raises |-> FALSE,
                    line |-> "#" \o idx \o " MINT | student: "
                        \o Fmt(DictGet(d, "student_name", PNone))
                        \o " | course: " \o Fmt(DictGet(d, "course", PNone))
                        \o " | year: " \o Fmt(DictGet(d, "year", PNone))
                        \o " | cert_hash: " \o Cut12(ch) \o "... | time: " \o t]
         ELSE IF typ = PStr("TRANSFER")
         THEN IF ch.t \notin {"str", "list"} THEN [raises |-> TRUE, line |-> ""]
              ELSE [raises |-> FALSE,
                    line |-> "#" \o idx \o " TRANSFER | cert_hash: " \o Cut12(ch)
                        \o "... | from: " \o Fmt(DictGet(d, "from", PNone))
                        \o " -> to: " \o Fmt(DictGet(d, "to", PNone))
                        \o " | time: " \o t]
         ELSE [raises |-> FALSE,
               line |-> "#" \o idx \o " " \o Fmt(typ) \o " | time: " \o t]

\* ----------------------------------------------------------------------- flows

\* What an operation leaves: the process's chain, the file, the clock, whether
\* the process is still running, and what the operation reported:
\* the operation, how it ended, the cert_hash it was about, the owner it
\* printed and the block add_block returned to it.
Report(op, res, arg, owner, block) ==
    [op |-> op, res |-> res, arg |-> arg, owner |-> owner, block |-> block]

Outcome(c, f, t, p, l) == [chain |-> c, file |-> f, now |-> t, pc |-> p, last |-> l]

\* An exception that run() does not catch ends the process.
Uncaught(f, t, op, arg) ==
    Outcome(<<>>, f, t, "down", Report(op, "raised", arg, PNone, NoBlock))

\* The fingerprint of mint_flow.
combined(fhash, student, course, year) ==
    sha256(fhash \o "|" \o student \o "|" \o course \o "|" \o year)

mint_data(fhash, student, course, year) ==
    PDict(<< <<"type", PStr("MINT")>>,
             <<"cert_hash", PStr(combined(fhash, student, course, year))>>,
             <<"file_hash", PStr(fhash)>>,
             <<"student_name", PStr(student)>>,
             <<"course", PStr(course)>>,
             <<"year", PStr(year)>>,
             <<"owner", PStr(student)>> >>)

mint_flow(c, f, t, student, course, year, file_path, t1, t2) ==
    LET fh == file_sha256(file_path) IN
    IF fh.raises
    THEN Outcome(c, f, t, "up", Report("mint", "nofile", "", PNone, NoBlock))
    ELSE LET cert == combined(fh.value, student, course, year)
             has == has_cert_hash(c, cert)
         IN
         IF has.raises THEN Uncaught(f, t, "mint", cert)
         ELSE IF has.value
         THEN Outcome(c, f, t, "up",
                      Report("mint", "duplicate", cert, PNone, NoBlock))
         ELSE LET a == add_block(c, f, mint_data(fh.value, student, course, year),
                                 t1, t2)
              IN
              IF a.raises THEN Uncaught(f, t, "mint", cert)
              ELSE Outcome(a.chain, a.file, t2, "up",
                           Report("mint", "minted", cert, PNone, a.block))

\* The loop with a defect: an owner, once set, is kept (first write wins).
RECURSIVE current_owner_first_wins(_, _)
current_owner_first_wins(hist, owner) ==
    IF hist = <<>> THEN owner
    ELSE LET d == DictGet(Head(hist), "data", PNone)
             typ == DictGet(d, "type", PNone)
         IN  current_owner_first_wins(Tail(hist),
                 IF owner # PNone THEN owner
                 ELSE IF typ = PStr("MINT") THEN DictGet(d, "owner", owner)
                 ELSE IF typ = PStr("TRANSFER") THEN DictGet(d, "to", owner)
                 ELSE owner)

\* The loop of transfer_flow and verify_flow over the history, oldest first.
RECURSIVE current_owner(_, _)
current_owner(hist, owner) ==
    IF hist = <<>> THEN owner
    ELSE LET d == DictGet(Head(hist), "data", PNone)
             typ == DictGet(d, "type", PNone)
         IN  current_owner(Tail(hist),
                 IF typ = PStr("MINT") THEN DictGet(d, "owner", owner)
                 ELSE IF typ = PStr("TRANSFER") THEN DictGet(d, "to", owner)
                 ELSE owner)

\* The TRANSFER payload with a defect: `from` and `to` change places.
transfer_data_swapped(cert_hash, from, to) ==
    PDict(<< <<"type", PStr("TRANSFER")>>, <<"cert_hash", PStr(cert_hash)>>,
             <<"from", PStr(to)>>, <<"to", from>> >>)

transfer_data(cert_hash, from, to) ==
    PDict(<< <<"type", PStr("TRANSFER")>>, <<"cert_hash", PStr(cert_hash)>>,
             <<"from", from>>, <<"to", PStr(to)>> >>)

transfer_flow(c, f, t, cert_hash, new_owner, t1, t2) ==
    LET hist == history(c, cert_hash) IN
    IF hist.raises THEN Uncaught(f, t, "transfer", cert_hash)
    ELSE IF hist.value = <<>>
    THEN Outcome(c, f, t, "up",
                 Report("transfer", "norecord", cert_hash, PNone, NoBlock))
    ELSE LET owner == current_owner(hist.value, PNone)
             a == add_block(c, f, transfer_data(cert_hash, owner, new_owner),
                            t1, t2)
         IN
         IF a.raises THEN Uncaught(f, t, "transfer", cert_hash)
         ELSE Outcome(a.chain, a.file, t2, "up",
                      Report("transfer", "transferred", cert_hash, owner,
                             a.block))

verify_flow(c, f, t, cert_hash) ==
    LET hist == history(c, cert_hash) IN
    IF hist.raises THEN Uncaught(f, t, "verify", cert_hash)
    ELSE IF hist.value = <<>>
    THEN Outcome(c, f, t, "up",
                 Report("verify", "norecord", cert_hash, PNone, NoBlock))
    ELSE IF \E i \in DOMAIN hist.value : pretty_block(hist.value[i]).raises
    THEN Uncaught(f, t, "verify", cert_hash)
    ELSE Outcome(c, f, t, "up",
                 Report("verify", "found", cert_hash,
                        current_owner(hist.value, PNone), NoBlock))

view_ledger(c, f, t) ==
    IF \E i \in DOMAIN c : pretty_block(serialize(c).v[i]).raises
    THEN Uncaught(f, t, "view", "")
    ELSE Outcome(c, f, t, "up", Report("view", "shown", "", PNone, NoBlock))

\* ------------------------------------------------------------ what users type

Students == {"Ana", "Bob"}
Courses == {"CS101"}
Years == {"2025"}
Paths == {"cert.pdf", "lost.pdf"}
NewOwners == {"org@example.com", "Bob"}

\* The fingerprints a mint can register, and one that none does.
Fingerprints ==
    {combined(file_sha256(p).value, s, k, y) :
        p \in DiskFiles, s \in Students, k \in Courses, y \in Years}
CertHashes == Fingerprints \cup {"c0ffee"}

\* ---------------------------------------------------------------- the machine

\* No second process.
NoPeer == [pc |-> "down", chain |-> <<>>]

Take(o) ==
    /\ chain' = o.chain
    /\ file' = o.file
    /\ now' = o.now
    /\ pc' = o.pc
    /\ last' = o.last
    /\ peer' = peer

\* run() constructs the Blockchain.
Start ==
    /\ pc = "down"
    /\ \E t \in Reads(now) :
          LET b == Blockchain(file, now, t) IN
          IF b.raises THEN Take(Uncaught(b.file, b.now, "init", ""))
          ELSE Take(Outcome(b.chain, b.file, b.now, "up",
                            Report("init", b.how, "", PNone, NoBlock)))

Mint ==
    /\ pc = "up"
    /\ \E student \in Students, course \in Courses, year \in Years,
          file_path \in Paths :
          \E t1 \in Reads(now) : \E t2 \in Reads(t1) :
             LET o == mint_flow(chain, file, now, student, course, year,
                                file_path, t1, t2)
             IN  /\ Len(o.chain) <= MaxChain
                 /\ Take(o)

Transfer ==
    /\ pc = "up"
    /\ \E cert_hash \in CertHashes, new_owner \in NewOwners :
          \E t1 \in Reads(now) : \E t2 \in Reads(t1) :
             LET o == transfer_flow(chain, file, now, cert_hash, new_owner, t1, t2)
             IN  /\ Len(o.chain) <= MaxChain
                 /\ Take(o)

Verify ==
    /\ pc = "up"
    /\ \E cert_hash \in CertHashes : Take(verify_flow(chain, file, now, cert_hash))

View ==
    /\ pc = "up"
    /\ Take(view_ledger(chain, file, now))

\* Choice 5, or an interrupt at a prompt: the process and its chain are gone.
Exit ==
    /\ pc = "up"
    /\ Take(Outcome(<<>>, file, now, "down",
                    Report("exit", "bye", "", PNone, NoBlock)))

Next == Start \/ Mint \/ Transfer \/ Verify \/ View \/ Exit

\* No process yet, and no chain file: the first run bootstraps the genesis.
Init ==
    /\ chain = <<>>
    /\ file = NoFile
    /\ now = 0
    /\ pc = "down"
    /\ last = Report("none", "", "", PNone, NoBlock)
    /\ peer = NoPeer

Spec == Init /\ [][Next]_vars

\* --------------------------------------- chain files the program did not write

Record(index, timestamp, prev_hash, data, current_hash) ==
    JObject(<< <<"index", index>>, <<"timestamp", timestamp>>,
               <<"prev_hash", prev_hash>>, <<"data", data>>,
               <<"current_hash", current_hash>> >>)

\* The record _save writes for a genesis block created at time 0.
GenesisRecord == json_dump(asdict(_create_genesis(0).chain[1]))

ForeignMint == json_dump(mint_data("feed", "Eve", "CS101", "2024"))

\* A second record without its current_hash.
MissingField ==
    JsonFile(JArray(<<GenesisRecord,
        JObject(<< <<"index", JInt(1)>>, <<"timestamp", JReal(0)>>,
                   <<"prev_hash", JString("aa")>>, <<"data", ForeignMint>> >>)>>))

\* A second record with a member Block does not have.
ExtraField ==
    JsonFile(JArray(<<GenesisRecord,
        JObject(<< <<"index", JInt(1)>>, <<"timestamp", JReal(0)>>,
                   <<"prev_hash", JString("aa")>>, <<"data", ForeignMint>>,
                   <<"current_hash", JString("bb")>>, <<"nonce", JInt(7)>> >>)>>))

\* Well-formed records whose hashes do not link and whose index is not the
\* record's place.
Unlinked ==
    JsonFile(JArray(<<GenesisRecord,
        Record(JInt(7), JReal(0), JString("aa"), ForeignMint, JString("bb"))>>))

\* Five members each, of other types than Block declares.
Mistyped ==
    JsonFile(JArray(<<
        Record(JString("0"), JNull, JNull,
               JObject(<< <<"type", JString("GENESIS")>> >>), JInt(5)),
        Record(JInt(1), JString("noon"), JInt(5),
               JObject(<< <<"type", JString("TRANSFER")>>, <<"cert_hash", JInt(9)>> >>),
               JString("bb"))>>))

\* A record whose data is no object.
DataNoDict ==
    JsonFile(JArray(<<GenesisRecord,
        Record(JInt(1), JReal(0), JString("aa"), JString("MINT"), JString("bb"))>>))

\* A record in which a member name repeats.
RepeatedName ==
    JsonFile(JArray(<<GenesisRecord,
        JObject(<< <<"index", JInt(1)>>, <<"timestamp", JReal(0)>>,
                   <<"prev_hash", JString("aa")>>, <<"data", ForeignMint>>,
                   <<"current_hash", JString("bb")>>, <<"index", JInt(3)>> >>)>>))

ForeignFiles ==
    {NoFile, Garbage,
     JsonFile(JArray(<<>>)), JsonFile(JInt(42)), JsonFile(JString("chain")),
     JsonFile(JObject(<<>>)), JsonFile(JObject(<< <<"blocks", JArray(<<>>)>> >>)),
     JsonFile(JArray(<<JInt(1)>>)),
     MissingField, ExtraField, Unlinked, Mistyped, DataNoDict, RepeatedName}

\* No process yet; CHAIN_FILE is absent or holds anything at all.
InitForeign ==
    /\ chain = <<>>
    /\ file \in ForeignFiles
    /\ now = 0
    /\ pc = "down"
    /\ last = Report("none", "", "", PNone, NoBlock)
    /\ peer = NoPeer

SpecForeign == InitForeign /\ [][Next]_vars

\* ------------------------------------------------------------------ properties

Linked(c) ==
    /\ c # <<>>
    /\ c[1].prev_hash = PStr(ZeroHash)
    /\ \A i \in 2..Len(c) : c[i].prev_hash = c[i - 1].current_hash

\* C1: from the genesis bootstrap, through mints, transfers, verifies, views
\* and restarts that reload the file the program wrote, the chain of a running
\* process is linked: block 0 has the all-zero prev_hash and every later block
\* has the current_hash of the block before it as its prev_hash.
C1_ChainLinked == pc = "up" => Linked(chain)

\* A chain of four blocks that a restart loaded back from the file.
C1_Witness ==
    /\ pc = "up"
    /\ last.op = "init" /\ last.res = "loaded"
    /\ Len(chain) = 4

\* A step in which a flow reported that add_block appended a block.
Appended == last' # last /\ last'.res \in {"minted", "transferred"}

\* C2: add_block on a chain of N >= 1 blocks leaves N+1 blocks, the new last
\* one with index N and with the old last block's current_hash as prev_hash,
\* and hands that block back to the flow; so every block's index is its place.
C2_AddBlock ==
    /\ [](pc = "up" => \A i \in DOMAIN chain : chain[i].index = PInt(i - 1))
    /\ [][Appended =>
            LET N == Len(chain) IN
            /\ N >= 1
            /\ Len(chain') = N + 1
            /\ chain'[N + 1].index = PInt(N)
            /\ chain'[N + 1].prev_hash = chain[N].current_hash
            /\ last'.block = chain'[N + 1]]_vars

\* A transfer has just appended the fourth block and got it back.
C2_Witness ==
    /\ pc = "up"
    /\ last.op = "transfer" /\ last.res = "transferred"
    /\ Len(chain) = 4 /\ last.block = chain[4] /\ last.block.index = PInt(3)

IsPrefix(c, d) == Len(c) <= Len(d) /\ SubSeq(d, 1, Len(c)) = c

\* C3: the ledger is append-only. Every operation of a running process, be it
\* accepted or rejected, leaves the chain it found as a prefix of the chain it
\* leaves and adds at most one block; verify and view change neither the chain
\* nor the file.
C3_AppendOnly ==
    [][(pc = "up" /\ pc' = "up") =>
          /\ IsPrefix(chain, chain')
          /\ Len(chain') <= Len(chain) + 1
          /\ last'.op \in {"verify", "view"} => chain' = chain /\ file' = file]_vars

\* A verify has shown the history of a certificate in a chain of four blocks.
C3_Witness ==
    /\ pc = "up"
    /\ last.op = "verify" /\ last.res = "found"
    /\ Len(chain) = 4

\* C4: has_cert_hash(fp) is true right after a mint registered fp, and once
\* true it stays true through every later mint and transfer (of fp or of
\* another certificate) for as long as the process runs.
C4_HasCertHashStays ==
    [][(pc = "up" /\ pc' = "up") =>
          \A fp \in CertHashes :
             /\ (last' # last /\ last'.res = "minted" /\ last'.arg = fp)
                   => has_cert_hash(chain', fp).value
             /\ has_cert_hash(chain, fp).value
                   => has_cert_hash(chain', fp).value]_vars

\* The certificate minted first is still known after its transfer and the
\* mint of another certificate.
C4_Witness ==
    /\ pc = "up"
    /\ Len(chain) = 4
    /\ chain[2].data = mint_data(file_sha256("cert.pdf").value, "Ana", "CS101", "2025")
    /\ DictGet(chain[3].data, "type", PNone) = PStr("TRANSFER")
    /\ last.res = "minted" /\ last.arg # DictGet(chain[2].data, "cert_hash", PNone).v
    /\ has_cert_hash(chain, DictGet(chain[2].data, "cert_hash", PNone).v).value

\* The places in c of the blocks of kind typ that carry cert_hash.
Places(c, typ, cert_hash) ==
    {i \in DOMAIN c : /\ DictGet(c[i].data, "cert_hash", PNone) = PStr(cert_hash)
                      /\ DictGet(c[i].data, "type", PNone) = PStr(typ)}

Latest(S) == CHOOSE m \in S : \A j \in S : j <= m

\* The `to` of the last TRANSFER of cert_hash in c, or the MINT's owner when
\* no TRANSFER follows it.
LastWrite(c, cert_hash) ==
    IF Places(c, "TRANSFER", cert_hash) # {}
    THEN DictGet(c[Latest(Places(c, "TRANSFER", cert_hash))].data, "to", PNone)
    ELSE DictGet(c[Latest(Places(c, "MINT", cert_hash))].data, "owner", PNone)

\* C5: the owner that verify prints, and that transfer resolves before it
\* appends, is last-write-wins over the certificate's history in chain order:
\* the `to` of its last TRANSFER, or the MINT's owner when there is none; and
\* the loop over an empty history gives None.
C5_LastWriteWins ==
    /\ (pc = "up" /\ last.op = "verify" /\ last.res = "found")
          => last.owner = LastWrite(chain, last.arg)
    /\ (pc = "up" /\ last.op = "transfer" /\ last.res = "transferred")
          => last.owner = LastWrite(SubSeq(chain, 1, Len(chain) - 1), last.arg)
    /\ current_owner(<<>>, PNone) = PNone

\* Minted by Ana, transferred to org@example.com and then to Bob: verify
\* prints Bob.
C5_Witness ==
    /\ pc = "up" /\ Len(chain) = 4
    /\ last.op = "verify" /\ last.res = "found" /\ last.owner = PStr("Bob")
    /\ DictGet(chain[2].data, "owner", PNone) = PStr("Ana")
    /\ DictGet(chain[3].data, "to", PNone) = PStr("org@example.com")
    /\ DictGet(chain[4].data, "to", PNone) = PStr("Bob")
    /\ \A i \in 2..4 : DictGet(chain[i].data, "cert_hash", PNone) = PStr(last.arg)

\* The fingerprint mint_flow computes from the fields stored in a MINT payload.
FingerprintOf(d) ==
    combined(DictGet(d, "file_hash", PNone).v, DictGet(d, "student_name", PNone).v,
             DictGet(d, "course", PNone).v, DictGet(d, "year", PNone).v)

\* C6: every MINT block carries the fingerprint of its own (file digest,
\* student, course, year), and a mint attempt that computes a fingerprint some
\* MINT block already carries is rejected as a duplicate: it appends nothing
\* and leaves chain and file as they were, whatever was transferred since.
C6_DuplicateMintRejected ==
    /\ [](pc = "up" =>
            \A i \in DOMAIN chain :
               DictGet(chain[i].data, "type", PNone) = PStr("MINT")
                  => DictGet(chain[i].data, "cert_hash", PNone)
                        = PStr(FingerprintOf(chain[i].data)))
    /\ [][(/\ pc = "up"
           /\ last' # last /\ last'.op = "mint"
           /\ Places(chain, "MINT", last'.arg) # {})
             => /\ last'.res = "duplicate"
                /\ has_cert_hash(chain, last'.arg).value
                /\ chain' = chain /\ file' = file /\ pc' = "up"]_vars

\* A second mint of a certificate that was transferred since its first mint
\* has been rejected.
C6_Witness ==
    /\ pc = "up"
    /\ last.op = "mint" /\ last.res = "duplicate"
    /\ Places(chain, "MINT", last.arg) # {}
    /\ Places(chain, "TRANSFER", last.arg) # {}

Carries(c, cert_hash) ==
    \E i \in DOMAIN c : DictGet(c[i].data, "cert_hash", PNone) = PStr(cert_hash)

\* C7: in every state of a running process, a transfer of a cert_hash that no
\* block carries, and a mint whose path is not a regular file, each report the
\* failure and leave the chain and the file exactly as they were.
C7_RejectedFlowsAppendNothing ==
    pc = "up" =>
       \A t1 \in Reads(now) : \A t2 \in Reads(t1) :
          /\ \A cert_hash \in CertHashes, new_owner \in NewOwners :
                ~Carries(chain, cert_hash) =>
                   LET o == transfer_flow(chain, file, now, cert_hash, new_owner,
                                          t1, t2)
                   IN  /\ o.last.res = "norecord"
                       /\ o.chain = chain /\ o.file = file /\ o.pc = "up"
          /\ \A student \in Students, course \in Courses, year \in Years,
                file_path \in Paths \ DiskFiles :
                   LET o == mint_flow(chain, file, now, student, course, year,
                                      file_path, t1, t2)
                   IN  /\ o.last.res = "nofile"
                       /\ o.chain = chain /\ o.file = file /\ o.pc = "up"

\* A transfer of a fingerprint that was never minted has been refused on a
\* chain that holds another certificate.
C7_Witness ==
    /\ pc = "up" /\ Len(chain) >= 2
    /\ last.op = "transfer" /\ last.res = "norecord"
    /\ ~Carries(chain, last.arg)
    /\ file = _save(chain)

CarrierPlaces(c, cert_hash) ==
    {i \in DOMAIN c : DictGet(c[i].data, "cert_hash", PNone) = PStr(cert_hash)}

\* C8: history(c) is exactly the blocks that carry c, in chain order (their
\* indexes strictly increase), and is empty exactly when has_cert_hash(c) is
\* false. A minted certificate's history is its MINT and its TRANSFERs, one
\* more with each successful mint or transfer, each of which also makes the
\* chain one block longer: k+1 after a mint and k transfers.
C8_History ==
    /\ [](pc = "up" =>
            \A cert_hash \in CertHashes :
               LET h == history(chain, cert_hash)
                   I == CarrierPlaces(chain, cert_hash)
               IN  /\ ~h.raises
                   /\ Len(h.value) = Cardinality(I)
                   /\ {h.value[j] : j \in DOMAIN h.value}
                         = {asdict(chain[i]) : i \in I}
                   /\ \A j, k \in DOMAIN h.value :
                         j < k => DictGet(h.value[j], "index", PNone).v
                                     < DictGet(h.value[k], "index", PNone).v
                   /\ (h.value = <<>>) <=> ~has_cert_hash(chain, cert_hash).value
                   /\ Places(chain, "MINT", cert_hash) # {} =>
                         Len(h.value) =
                            1 + Cardinality(Places(chain, "TRANSFER", cert_hash)))
    /\ [][Appended =>
            /\ Len(history(chain', last'.arg).value)
                  = Len(history(chain, last'.arg).value) + 1
            /\ last'.res = "minted" => history(chain, last'.arg).value = <<>>
            /\ Len(chain') = Len(chain) + 1]_vars

\* After a mint and two transfers of one certificate its history has three
\* blocks and the chain four.
C8_Witness ==
    /\ pc = "up" /\ Len(chain) = 4
    /\ last.op = "transfer" /\ last.res = "transferred"
    /\ Len(history(chain, last.arg).value) = 3
    /\ Cardinality(Places(chain, "TRANSFER", last.arg)) = 2

\* The value json.load gives member `name` of record i of the file.
Stored(f, i, name) == DictGet(json_load(f.doc.v[i]), name, PNone)

\* C9: saving any chain a process can hold and loading it back gives the same
\* blocks in the same order, equal in all five fields; and a load takes every
\* field, current_hash included, as the file has it, computing nothing anew.
C9_RoundTrip ==
    /\ [](pc = "up" => _load(_save(chain)) = [raises |-> FALSE, chain |-> chain])
    /\ [][(pc = "down" /\ pc' = "up" /\ last'.res = "loaded") =>
            /\ Len(chain') = Len(file.doc.v)
            /\ \A i \in DOMAIN chain' :
                  /\ chain'[i].index = Stored(file, i, "index")
                  /\ chain'[i].timestamp = Stored(file, i, "timestamp")
                  /\ chain'[i].prev_hash = Stored(file, i, "prev_hash")
                  /\ chain'[i].data = Stored(file, i, "data")
                  /\ chain'[i].current_hash = Stored(file, i, "current_hash")]_vars

\* A restart has loaded back the four blocks that the process before it
\* minted, transferred and saved.
C9_Witness ==
    /\ pc = "up" /\ last.op = "init" /\ last.res = "loaded"
    /\ Len(chain) = 4
    /\ DictGet(chain[4].data, "type", PNone) = PStr("TRANSFER")
    /\ file = _save(chain)
    /\ _load(file).chain = chain

GenesisOnly(c) ==
    /\ Len(c) = 1
    /\ c[1].index = PInt(0)
    /\ c[1].prev_hash = PStr(ZeroHash)
    /\ c[1].data = genesis_data
    /\ c[1].current_hash = PStr(sha256(repr(genesis_data)))

Names(members) == {members[i][1] : i \in DOMAIN members}

\* A file of records one of which lacks a field of Block.
LacksField(f) ==
    /\ f.parses /\ f.doc.t = "array"
    /\ \E i \in DOMAIN f.doc.v :
          /\ f.doc.v[i].t = "object"
          /\ \E k \in DOMAIN BlockFields : BlockFields[k] \notin Names(f.doc.v[i].v)

\* C10: when the chain file is missing, is no JSON, has a record with a
\* missing field, or fails to load for any other reason, Blockchain() ends
\* with a running process whose chain is one Genesis block and with a file
\* that holds that chain and nothing of what was stored; no exception escapes.
C10_LoadFailureFallsBack ==
    [][(/\ pc = "down" /\ vars' # vars
        /\ \/ ~file.exists
           \/ ~file.parses
           \/ LacksField(file)
           \/ _load(file).raises)
          => /\ pc' = "up"
             /\ last'.op = "init" /\ last'.res \in {"genesis", "recovered"}
             /\ GenesisOnly(chain')
             /\ file' = _save(chain')
             /\ _load(file') = [raises |-> FALSE, chain |-> chain']]_vars

\* Initialization has recovered from a file that did not load.
C10_Witness ==
    /\ pc = "up" /\ last.op = "init" /\ last.res = "recovered"
    /\ GenesisOnly(chain)
    /\ file = _save(chain)

\* The Python types that the annotations of Block declare for its fields.
FieldTypes ==
    [index |-> {"int"}, timestamp |-> {"float"}, prev_hash |-> {"str"},
     data |-> {"dict"}, current_hash |-> {"str"}]

WellTyped(b) ==
    /\ b.index.t \in FieldTypes.index
    /\ b.timestamp.t \in FieldTypes.timestamp
    /\ b.prev_hash.t \in FieldTypes.prev_hash
    /\ b.data.t \in FieldTypes.data
    /\ b.current_hash.t \in FieldTypes.current_hash

\* Record i of the file has a field whose value is not of the declared type.
MistypedField(f, i) ==
    \/ Stored(f, i, "index").t \notin FieldTypes.index
    \/ Stored(f, i, "timestamp").t \notin FieldTypes.timestamp
    \/ Stored(f, i, "prev_hash").t \notin FieldTypes.prev_hash
    \/ Stored(f, i, "data").t \notin FieldTypes.data
    \/ Stored(f, i, "current_hash").t \notin FieldTypes.current_hash

\* A file of records one of which has a missing, an extra or a mistyped field.
HasBadRecord(f) ==
    /\ f.parses /\ f.doc.t = "array"
    /\ \A i \in DOMAIN f.doc.v : f.doc.v[i].t = "object"
    /\ \E i \in DOMAIN f.doc.v :
          \/ Names(f.doc.v[i].v) # {BlockFields[k] : k \in DOMAIN BlockFields}
          \/ MistypedField(f, i)

\* C11: a start from a file with a record that has a missing, an extra or a
\* mistyped field falls back to a chain of one Genesis block, and no block of
\* a running process has a field of another type than Block declares.
C11_BadRecordIsLoadFailure ==
    /\ [][(pc = "down" /\ vars' # vars /\ HasBadRecord(file))
             => /\ pc' = "up"
                /\ last'.res = "recovered"
                /\ GenesisOnly(chain')]_vars
    /\ [](pc = "up" => \A i \in DOMAIN chain : WellTyped(chain[i]))

\* C12: in every state of a running process, whether its chain was
\* bootstrapped or loaded from whatever the file held, the chain is non-empty
\* and its first block is the Genesis block.
C12_GenesisFirst ==
    pc = "up" => /\ chain # <<>>
                 /\ GenesisOnly(<<chain[1]>>)

\* The payloads that the flows hand to add_block.
Payloads ==
    {mint_data(file_sha256(p).value, s, k, y) :
        p \in DiskFiles, s \in Students, k \in Courses, y \in Years}
    \cup {transfer_data(c, PStr(s), o) :
             c \in CertHashes, s \in Students, o \in NewOwners}

\* C13: in every state of a running process, after a bootstrap or after a
\* load that raised nothing, add_block of any payload raises no exception and
\* returns the block it appended.
C13_AddBlockTotal ==
    pc = "up" =>
        \A data \in Payloads : \A t1 \in Reads(now) : \A t2 \in Reads(t1) :
            LET a == add_block(chain, file, data, t1, t2) IN
            /\ ~a.raises
            /\ a.block = a.chain[Len(a.chain)]
            /\ a.block.data = data

\* ------------------------------------------------------- a _save that raises

\* Where _save can raise: at open(CHAIN_FILE, "w"), which then leaves the file
\* as it was, or in json.dump after open has emptied the file, which leaves a
\* proper prefix of the text; no proper prefix of the array's text is JSON.
SaveFaults == {"open", "write"}

_save_raises(f, how) == IF how = "open" THEN f ELSE Garbage

\* The outcome of a flow whose add_block appended and whose _save then raised:
\* the exception leaves add_block and the flow with the chain as appended.
SaveRaises(o, f, how) ==
    Outcome(o.chain, _save_raises(f, how), o.now, "raising",
            Report(o.last.op, "raised", o.last.arg, o.last.owner, o.last.block))

\* _create_genesis with a _save that raises: the exception leaves Blockchain().
StartSaveRaises ==
    /\ pc = "down"
    /\ \E t \in Reads(now), how \in SaveFaults :
          LET b == Blockchain(file, now, t) IN
          /\ ~b.raises /\ b.how \in {"genesis", "recovered"}
          /\ Take(Outcome(b.chain, _save_raises(file, how), b.now, "raising",
                          Report("init", "raised", "", PNone, NoBlock)))

MintSaveRaises ==
    /\ pc = "up"
    /\ \E student \in Students, course \in Courses, year \in Years,
          file_path \in Paths, how \in SaveFaults :
          \E t1 \in Reads(now) : \E t2 \in Reads(t1) :
             LET o == mint_flow(chain, file, now, student, course, year,
                                file_path, t1, t2)
             IN  /\ o.last.res = "minted"
                 /\ Len(o.chain) <= MaxChain
                 /\ Take(SaveRaises(o, file, how))

TransferSaveRaises ==
    /\ pc = "up"
    /\ \E cert_hash \in CertHashes, new_owner \in NewOwners, how \in SaveFaults :
          \E t1 \in Reads(now) : \E t2 \in Reads(t1) :
             LET o == transfer_flow(chain, file, now, cert_hash, new_owner, t1, t2)
             IN  /\ o.last.res = "transferred"
                 /\ Len(o.chain) <= MaxChain
                 /\ Take(SaveRaises(o, file, how))

\* run() catches KeyboardInterrupt only: the exception ends the process.
Unwind ==
    /\ pc = "raising"
    /\ Take(Outcome(<<>>, file, now, "down", last))

NextFault ==
    \/ Next
    \/ StartSaveRaises
    \/ MintSaveRaises
    \/ TransferSaveRaises
    \/ Unwind

SpecFault == Init /\ [][NextFault]_vars

\* C14: no append is partially applied. A step of a running process that
\* appends a block either leaves the file holding the new chain, or, when the
\* save raised, leaves the chain one block ahead of a file that still holds
\* the previous complete chain and loads as a prefix of the chain in memory.
C14_NoPartialAppend ==
    [][(pc = "up" /\ Len(chain') = Len(chain) + 1) =>
          \/ /\ pc' = "up"
             /\ _load(file') = [raises |-> FALSE, chain |-> chain']
          \/ /\ pc' = "raising"
             /\ chain = SubSeq(chain', 1, Len(chain))
             /\ _load(file') = [raises |-> FALSE, chain |-> chain]
             /\ IsPrefix(_load(file').chain, chain')]_vars

\* Chain files the program did not write, and a _save that can raise.
SpecFaultForeign == InitForeign /\ [][NextFault]_vars

\* C15: in every state of a running process, that is after Blockchain() and
\* after every add_block whose save completed, the file holds every block of
\* the chain in memory, in order and equal in every field; and when the
\* process ends, a start from the file it leaves builds the chain it had.
C15_FileHoldsChain ==
    /\ [](pc = "up" =>
            /\ file.exists /\ file.parses
            /\ Len(file.doc.v) = Len(chain)
            /\ \A i \in DOMAIN chain :
                  LET record == json_load(file.doc.v[i])
                      fields == asdict(chain[i])
                  IN  \A k \in DOMAIN BlockFields :
                         DictGet(record, BlockFields[k], PNone)
                            = DictGet(fields, BlockFields[k], PNone)
            /\ _load(file) = [raises |-> FALSE, chain |-> chain])
    /\ [][(pc = "up" /\ pc' = "down") =>
            \A t \in Reads(now') :
               LET b == Blockchain(file', now', t) IN
               /\ ~b.raises /\ b.how = "loaded"
               /\ b.chain = chain
               /\ b.file = file']_vars

\* A process that minted and transferred has ended, and the file it leaves
\* loads as the four blocks it had.
C15_Witness ==
    /\ pc = "down" /\ last.op = "exit"
    /\ ~_load(file).raises
    /\ Len(_load(file).chain) = 4
    /\ GenesisOnly(<<_load(file).chain[1]>>)
    /\ DictGet(_load(file).chain[4].data, "type", PNone) = PStr("TRANSFER")
    /\ file = _save(_load(file).chain)

\* C16: in every state of a running process, transfer_flow on any cert_hash
\* the chain carries, for any new owner whatever (nothing asks who requests
\* it), appends a TRANSFER block whose `from` is the owner that the history
\* gives at that moment (the `to` of the latest TRANSFER of the cert_hash, or
\* the MINT's owner when there is none) and whose `to` is the new owner given.
C16_TransferFromTo ==
    /\ [](pc = "up" =>
            \A cert_hash \in CertHashes : \A new_owner \in NewOwners :
            \A t1 \in Reads(now) : \A t2 \in Reads(t1) :
               Carries(chain, cert_hash) =>
                  LET o == transfer_flow(chain, file, now, cert_hash, new_owner,
                                         t1, t2)
                      d == o.last.block.data
                  IN  /\ o.last.res = "transferred"
                      /\ o.chain = Append(chain, o.last.block)
                      /\ Keys(d.v) = {"type", "cert_hash", "from", "to"}
                      /\ DictGet(d, "type", PNone) = PStr("TRANSFER")
                      /\ DictGet(d, "cert_hash", PNone) = PStr(cert_hash)
                      /\ DictGet(d, "from", PNone) = LastWrite(chain, cert_hash)
                      /\ DictGet(d, "to", PNone) = PStr(new_owner))
    /\ [][(Appended /\ last'.res = "transferred") =>
            LET d == chain'[Len(chain')].data IN
            /\ DictGet(d, "type", PNone) = PStr("TRANSFER")
            /\ DictGet(d, "cert_hash", PNone) = PStr(last'.arg)
            /\ DictGet(d, "from", PNone) = LastWrite(chain, last'.arg)
            /\ DictGet(d, "from", PNone) = last'.owner
            /\ DictGet(d, "to", PNone).v \in NewOwners]_vars

\* Ana's certificate went to the organisation and from there to Bob, who is
\* no owner of it before: the second TRANSFER names the organisation as `from`.
C16_Witness ==
    /\ pc = "up" /\ last.op = "transfer" /\ last.res = "transferred"
    /\ Len(chain) = 4
    /\ DictGet(chain[2].data, "owner", PNone) = PStr("Ana")
    /\ DictGet(chain[3].data, "from", PNone) = PStr("Ana")
    /\ DictGet(chain[3].data, "to", PNone) = PStr("org@example.com")
    /\ DictGet(chain[4].data, "from", PNone) = PStr("org@example.com")
    /\ DictGet(chain[4].data, "to", PNone) = PStr("Bob")
    /\ DictGet(chain[4].data, "cert_hash", PNone)
          = DictGet(chain[2].data, "cert_hash", PNone)

\* A file that is an array of objects, each with exactly the five fields.
WellFormedRecords(f) ==
    /\ f.parses /\ f.doc.t = "array"
    /\ \A i \in DOMAIN f.doc.v :
          /\ f.doc.v[i].t = "object"
          /\ Names(f.doc.v[i].v) = {BlockFields[k] : k \in DOMAIN BlockFields}

\* C17: a start from a file of well-formed records, whether or not their
\* prev_hash and current_hash link and their index values match their
\* positions, loads without failure: the process runs on a chain made of the
\* stored values as they are, and the file is left as it was.
C17_LoadChecksNothing ==
    [][(pc = "down" /\ vars' # vars /\ WellFormedRecords(file)) =>
          /\ pc' = "up"
          /\ last'.op = "init" /\ last'.res = "loaded"
          /\ file' = file
          /\ chain' = [i \in DOMAIN file.doc.v |->
                          Block(Stored(file, i, "index"),
                                Stored(file, i, "timestamp"),
                                Stored(file, i, "prev_hash"),
                                Stored(file, i, "data"),
                                Stored(file, i, "current_hash"))]]_vars

\* A process runs on a loaded chain whose second block has index 7 and a
\* prev_hash that is not the first block's current_hash.
C17_Witness ==
    /\ pc = "up" /\ last.op = "init" /\ last.res = "loaded"
    /\ Len(chain) = 2
    /\ chain[2].index = PInt(7)
    /\ chain[2].prev_hash = PStr("aa")
    /\ chain[2].prev_hash # chain[1].current_hash
    /\ chain[2].current_hash = PStr("bb")
    /\ ~Linked(chain)
    /\ file = Unlinked

\* ------------------------------------------- two processes on one chain file

\* With two processes, neither appends to a chain of this many blocks.
MaxRaceChain == 2

\* A step of the first process next to a second one; no report is kept.
RaceTake(o) ==
    /\ chain' = o.chain
    /\ pc' = o.pc
    /\ file' = o.file
    /\ now' = o.now
    /\ UNCHANGED <<last, peer>>

\* A step of the second process: it has its own chain and shares the file and
\* the clock.
PeerTake(o) ==
    /\ peer' = [pc |-> o.pc, chain |-> o.chain]
    /\ file' = o.file
    /\ now' = o.now
    /\ UNCHANGED <<chain, pc, last>>

\* run() constructs the Blockchain from the file as it is at that moment.
StartOf(t) ==
    LET b == Blockchain(file, now, t) IN
    Outcome(b.chain, b.file, b.now, IF b.raises THEN "down" ELSE "up", last)

RaceStart == pc = "down" /\ \E t \in Reads(now) : RaceTake(StartOf(t))

PeerStart == peer.pc = "down" /\ \E t \in Reads(now) : PeerTake(StartOf(t))

RaceMint ==
    /\ pc = "up"
    /\ \E student \in Students, course \in Courses, year \in Years,
          file_path \in Paths :
          \E t1 \in Reads(now) : \E t2 \in Reads(t1) :
             LET o == mint_flow(chain, file, now, student, course, year,
                                file_path, t1, t2)
             IN  /\ Len(o.chain) <= MaxRaceChain
                 /\ RaceTake(o)

PeerMint ==
    /\ peer.pc = "up"
    /\ \E student \in Students, course \in Courses, year \in Years,
          file_path \in Paths :
          \E t1 \in Reads(now) : \E t2 \in Reads(t1) :
             LET o == mint_flow(peer.chain, file, now, student, course, year,
                                file_path, t1, t2)
             IN  /\ Len(o.chain) <= MaxRaceChain
                 /\ PeerTake(o)

RaceTransfer ==
    /\ pc = "up"
    /\ \E cert_hash \in CertHashes, new_owner \in NewOwners :
          \E t1 \in Reads(now) : \E t2 \in Reads(t1) :
             LET o == transfer_flow(chain, file, now, cert_hash, new_owner, t1, t2)
             IN  /\ Len(o.chain) <= MaxRaceChain
                 /\ RaceTake(o)

PeerTransfer ==
    /\ peer.pc = "up"
    /\ \E cert_hash \in CertHashes, new_owner \in NewOwners :
          \E t1 \in Reads(now) : \E t2 \in Reads(t1) :
             LET o == transfer_flow(peer.chain, file, now, cert_hash, new_owner,
                                    t1, t2)
             IN  /\ Len(o.chain) <= MaxRaceChain
                 /\ PeerTake(o)

\* Menu choice 5 in either process.
RaceExit == pc = "up" /\ RaceTake(Outcome(<<>>, file, now, "down", last))

PeerExit == peer.pc = "up" /\ PeerTake(Outcome(<<>>, file, now, "down", last))

NextTwo ==
    \/ RaceStart
    \/ RaceMint
    \/ RaceTransfer
    \/ RaceExit
    \/ PeerStart
    \/ PeerMint
    \/ PeerTransfer
    \/ PeerExit

SpecTwo == Init /\ [][NextTwo]_vars

\* One process has appended a block to the ledger both hold; now the other,
\* still holding the ledger without that block, appends one of its own.
MainLater ==
    /\ pc = "up" /\ pc' = "up" /\ chain' # chain
    /\ peer.pc = "up"
    /\ Len(peer.chain) = Len(chain) + 1
    /\ IsPrefix(chain, peer.chain)

PeerLater ==
    /\ peer.pc = "up" /\ peer'.pc = "up" /\ peer'.chain # peer.chain
    /\ pc = "up"
    /\ Len(chain) = Len(peer.chain) + 1
    /\ IsPrefix(peer.chain, chain)

\* The later save replaces the file: it holds the later chain, with one block
\* at the contested index and without the block appended earlier.
Overwritten(later, earlier, f) ==
    /\ f = _save(later)
    /\ _load(f) = [raises |-> FALSE, chain |-> later]
    /\ Len(later) = Len(earlier)
    /\ SubSeq(later, 1, Len(later) - 1) = SubSeq(earlier, 1, Len(earlier) - 1)
    /\ later[Len(later)].index = earlier[Len(earlier)].index
    /\ later[Len(later)].prev_hash = earlier[Len(earlier)].prev_hash

DifferUnlessSame(b, e, t) ==
    /\ b.data # e.data => b # e /\ b.current_hash # e.current_hash
    /\ e.timestamp # PFloat(t) => b # e
    /\ b = e => b.data = e.data /\ e.timestamp = PFloat(t)

C19_SameInputsDifferentHash ==
    [][/\ (MainLater /\ chain'[Len(chain')].data = peer.chain[Len(chain')].data)
            => chain'[Len(chain')].current_hash
                  # peer.chain[Len(chain')].current_hash
       /\ (PeerLater /\ peer'.chain[Len(chain)].data = chain[Len(chain)].data)
            => peer'.chain[Len(chain)].current_hash
                  # chain[Len(chain)].current_hash]_vars

\* The block b appended to chain c was built from two clock readings: one
\* inside compute_hash and, not before it, one for the timestamp.
TwoReadings(c, b, t0, t) ==
    \E t1 \in Reads(t0) :
        /\ b.current_hash = PStr(compute_hash(c, b.data, b.prev_hash, t1))
        /\ b.timestamp.v \in Reads(t1)
        /\ b.timestamp = PFloat(t)

\* C19 amended: two calls of compute_hash with the same payload, prev_hash and
\* chain length give different hashes exactly when their clock readings
\* differ, and the same hash when the readings are equal; and the hash of an
\* appended block is made with a reading taken apart from, and not after, the
\* one stored as its timestamp.
C19_HashFoldsTime ==
    /\ [](\A c \in {chain, peer.chain} : c # <<>> =>
            \A data \in Payloads : \A t, u \in 0..MaxTime :
               (compute_hash(c, data, c[Len(c)].current_hash, t)
                   = compute_hash(c, data, c[Len(c)].current_hash, u))
               <=> (t = u))
    /\ [][/\ (pc = "up" /\ pc' = "up" /\ chain' # chain)
               => TwoReadings(chain, chain'[Len(chain')], now, now')
          /\ (peer.pc = "up" /\ peer'.pc = "up" /\ peer'.chain # peer.chain)
               => TwoReadings(peer.chain, peer'.chain[Len(peer'.chain)],
                              now, now')]_vars

\* Two processes minted the same certificate on the same Genesis block; the
\* hashes differ, the earlier one made at reading 0 with timestamp 1.
C19_Witness ==
    /\ pc = "up" /\ peer.pc = "up"
    /\ Len(chain) = 2 /\ Len(peer.chain) = 2
    /\ chain[1] = peer.chain[1]
    /\ chain[2].data = peer.chain[2].data
    /\ chain[2].prev_hash = peer.chain[2].prev_hash
    /\ chain[2].current_hash # peer.chain[2].current_hash
    /\ chain[2].current_hash
          = PStr(compute_hash(<<chain[1]>>, chain[2].data, chain[2].prev_hash, 0))
    /\ chain[2].timestamp = PFloat(1)
    /\ peer.chain[2].current_hash
          = PStr(compute_hash(<<chain[1]>>, chain[2].data, chain[2].prev_hash, 1))

\* The cert_hash values that the blocks of c carry.
CertHashesIn(c) ==
    {DictGet(c[i].data, "cert_hash", PNone).v :
        i \in {j \in DOMAIN c : DictGet(c[j].data, "cert_hash", PNone) # PNone}}

\* C20: in every state of a ledger that began with the genesis bootstrap and
\* grew by mint_flow and transfer_flow, each cert_hash that a block carries
\* has exactly one MINT block, every other block carrying it is a TRANSFER,
\* and the MINT block comes before each of them.
C20_OneMintFirst ==
    pc = "up" =>
        \A cert_hash \in CertHashesIn(chain) :
            /\ Cardinality(Places(chain, "MINT", cert_hash)) = 1
            /\ CarrierPlaces(chain, cert_hash)
                  = Places(chain, "MINT", cert_hash)
                       \cup Places(chain, "TRANSFER", cert_hash)
            /\ \A m \in Places(chain, "MINT", cert_hash) :
               \A x \in Places(chain, "TRANSFER", cert_hash) : m < x

\* Two certificates were minted and the first then transferred: each has its
\* one MINT, the first in block 1 before its TRANSFER in block 3.
C20_Witness ==
    /\ pc = "up" /\ Len(chain) = 4
    /\ Cardinality(CertHashesIn(chain)) = 2
    /\ \E cert_hash \in CertHashesIn(chain) :
          /\ Places(chain, "MINT", cert_hash) = {2}
          /\ Places(chain, "TRANSFER", cert_hash) = {4}
    /\ \E cert_hash \in CertHashesIn(chain) :
          /\ Places(chain, "MINT", cert_hash) = {3}
          /\ Places(chain, "TRANSFER", cert_hash) = {}

====
